---- MODULE Spec2Model ----
(***************************************************************************)
(* Sliver C2 topology visualizer (src/python/sliver-graph.py).             *)
(*                                                                         *)
(* The model covers the topology builder (build_agent_tree), the temporal  *)
(* tracker (track_agent_changes, is_agent_new) with its three module-level *)
(* dictionaries, and the refresh loop (monitor_loop) that drives them.     *)
(*                                                                         *)
(* Python strings are TLA+ strings; `in`, lower() and upper() are computed *)
(* character by character.  time.time() is the variable clock, in whole    *)
(* seconds.  A Python dict keyed by agent ID is a function whose domain is *)
(* the set of keys, except all_agents in build_agent_tree, whose insertion *)
(* order decides the order of the forest and which is kept as a sequence.  *)
(***************************************************************************)
EXTENDS Integers, Sequences, FiniteSets, TLC

VARIABLES
    pc,               \* position in monitor_loop (or in the build-only run)
    clock,            \* time.time()
    ticks,            \* iterations of the while loop started so far
    sessions,         \* result of client.sessions() of the current tick
    beacons,          \* result of client.beacons() of the current tick
    agent_tree,       \* local agent_tree of monitor_loop
    changes,          \* local changes of monitor_loop
    PREVIOUS_AGENTS,  \* global dict: agent ID -> agent of the last refresh
    AGENT_FIRST_SEEN, \* global dict: agent ID -> time first detected
    LOST_AGENTS,      \* global dict: agent ID -> [agent, lost_time]
    new_badges,       \* IDs draw_graph badged "NEW!" in its last run
    unique_hosts,     \* local unique_hosts of draw_graph
    stats,            \* local stats of draw_graph
    tickStart,        \* history: the three dicts as they were when the tick began
    prevTickIds,      \* history: IDs fetched in the last two ticks whose tracker ran
    steps             \* history: the stages the current tick has completed

vars == <<pc, clock, ticks, sessions, beacons, agent_tree, changes,
          PREVIOUS_AGENTS, AGENT_FIRST_SEEN, LOST_AGENTS, new_badges,
          unique_hosts, stats, tickStart, prevTickIds, steps>>

---------------------------------------------------------------------------
(* Program constants *)

NEW_AGENT_TIMEOUT == 300
LOST_AGENT_DISPLAY_TIME == 300

(* Bounds of the model *)

\* iterations of the while loop of monitor_loop that are explored
MaxTicks == 4
\* records in one build-only input (sessions and beacons together)
MaxAgents == 3

---------------------------------------------------------------------------
(* Python string operations *)

UpperChars == "ABCDEFGHIJKLMNOPQRSTUVWXYZ"
LowerChars == "abcdefghijklmnopqrstuvwxyz"

\* a substring test that a needle of no characters fails
ContainsNonEmpty(sub, s) ==
    /\ sub # ""
    /\ \E i \in 1..(Len(s) - Len(sub) + 1) : SubSeq(s, i, i + Len(sub) - 1) = sub

\* sub in s
Contains(sub, s) ==
    \E i \in 1..(Len(s) - Len(sub) + 1) : SubSeq(s, i, i + Len(sub) - 1) = sub

\* s.endswith(suffix)
EndsWith(s, suffix) ==
    /\ Len(suffix) <= Len(s)
    /\ SubSeq(s, Len(s) - Len(suffix) + 1, Len(s)) = suffix

\* the lowercase of every uppercase letter
LowerOf ==
    [c \in {SubSeq(UpperChars, i, i) : i \in 1..26} |->
        LET i == CHOOSE j \in 1..26 : SubSeq(UpperChars, j, j) = c
        IN SubSeq(LowerChars, i, i)]

\* the uppercase of every lowercase letter
UpperOf ==
    [c \in {SubSeq(LowerChars, i, i) : i \in 1..26} |->
        LET i == CHOOSE j \in 1..26 : SubSeq(LowerChars, j, j) = c
        IN SubSeq(UpperChars, i, i)]

LowerChar(c) == IF c \in DOMAIN LowerOf THEN LowerOf[c] ELSE c

UpperChar(c) == IF c \in DOMAIN UpperOf THEN UpperOf[c] ELSE c

RECURSIVE Lower(_)
\* s.lower()
Lower(s) ==
    IF Len(s) = 0 THEN ""
    ELSE LowerChar(SubSeq(s, 1, 1)) \o Lower(SubSeq(s, 2, Len(s)))

RECURSIVE Upper(_)
\* s.upper()
Upper(s) ==
    IF Len(s) = 0 THEN ""
    ELSE UpperChar(SubSeq(s, 1, 1)) \o Upper(SubSeq(s, 2, Len(s)))

---------------------------------------------------------------------------
(* build_agent_tree *)

\* the dict build_agent_tree makes of a session
SessionAgent(s) ==
    [ID |-> s.ID, Hostname |-> s.Hostname, Username |-> s.Username,
     OS |-> s.OS, Transport |-> s.Transport, ProxyURL |-> s.ProxyURL,
     UID |-> s.UID, IsDead |-> s.IsDead, NextCheckin |-> 0,
     type |-> "session", children |-> <<>>]

\* the dict build_agent_tree makes of a beacon
BeaconAgent(b) ==
    [ID |-> b.ID, Hostname |-> b.Hostname, Username |-> b.Username,
     OS |-> b.OS, Transport |-> b.Transport, ProxyURL |-> b.ProxyURL,
     UID |-> b.UID, IsDead |-> b.IsDead, NextCheckin |-> b.NextCheckin,
     type |-> "beacon", children |-> <<>>]

\* all_agents[agent['ID']] = agent: an existing key keeps its place
DictPut(d, agent) ==
    IF \E i \in 1..Len(d) : d[i].ID = agent.ID
    THEN [i \in 1..Len(d) |-> IF d[i].ID = agent.ID THEN agent ELSE d[i]]
    ELSE Append(d, agent)

RECURSIVE DictPutAll(_, _)
DictPutAll(d, agents) ==
    IF agents = <<>> THEN d
    ELSE DictPutAll(DictPut(d, Head(agents)), Tail(agents))

\* all_agents with the beacons converted before the sessions
AllAgentsBeaconsFirst(ss, bs) ==
    DictPutAll(DictPutAll(<<>>, [i \in 1..Len(bs) |-> BeaconAgent(bs[i])]),
               [i \in 1..Len(ss) |-> SessionAgent(ss[i])])

\* all_agents after the two conversion loops, in insertion order
AllAgents(ss, bs) ==
    DictPutAll(DictPutAll(<<>>, [i \in 1..Len(ss) |-> SessionAgent(ss[i])]),
               [i \in 1..Len(bs) |-> BeaconAgent(bs[i])])

\* is_pivoted with the transport compared as it is, not lowercased
IsPivotedCaseSensitive(agent) ==
    \/ agent.ProxyURL # ""
    \/ Contains("pivot", agent.Transport)
    \/ Contains("namedpipe", agent.Transport)
    \/ Contains("bind", agent.Transport)

\* is_pivoted
IsPivoted(agent) ==
    LET transport_lower == Lower(agent.Transport)
    IN \/ agent.ProxyURL # ""
       \/ Contains("pivot", transport_lower)
       \/ Contains("namedpipe", transport_lower)
       \/ Contains("bind", transport_lower)

IsRootCandidate(agent) == ~IsPivoted(agent)

\* root['ID'] in proxy_url or root['Hostname'] in proxy_url
ProxyMatch(root, pivoted) ==
    \/ Contains(root.ID, pivoted.ProxyURL)
    \/ Contains(root.Hostname, pivoted.ProxyURL)

\* the hostname test with both sides lowercased
HostMatchIgnoreCase(root, pivoted) == Lower(root.Hostname) = Lower(pivoted.Hostname)

\* root['Hostname'] == pivoted['Hostname']
HostMatch(root, pivoted) == root.Hostname = pivoted.Hostname

\* the roots the two for-loops over root_agents visit: the list as it is now
ParentCandidates(root_agents) == 1..Len(root_agents)

\* the first loop as two scans: every root's ID first, then every root's hostname
FirstProxyParentIdFirst(root_agents, pivoted) ==
    LET byId == {i \in ParentCandidates(root_agents) :
                     Contains(root_agents[i].ID, pivoted.ProxyURL)}
        byName == {i \in ParentCandidates(root_agents) :
                       Contains(root_agents[i].Hostname, pivoted.ProxyURL)}
        hits == IF byId # {} THEN byId ELSE byName
    IN IF hits = {} THEN 0 ELSE CHOOSE i \in hits : \A j \in hits : i <= j

\* index of the root the first loop breaks at, 0 when it runs to its end
FirstProxyParent(root_agents, pivoted) ==
    LET hits == {i \in ParentCandidates(root_agents) :
                     ProxyMatch(root_agents[i], pivoted)}
    IN IF hits = {} THEN 0 ELSE CHOOSE i \in hits : \A j \in hits : i <= j

\* index of the root the second loop breaks at, 0 when it runs to its end
FirstHostParent(root_agents, pivoted) ==
    LET hits == {i \in ParentCandidates(root_agents) :
                     HostMatch(root_agents[i], pivoted)}
    IN IF hits = {} THEN 0 ELSE CHOOSE i \in hits : \A j \in hits : i <= j

\* the append without "parent_found = True": the fallback appends the child too
AddChildFallsThrough(root_agents, i, pivoted) ==
    Append([root_agents EXCEPT ![i].children = Append(@, pivoted)], pivoted)

\* root['children'].append(pivoted)
AddChild(root_agents, i, pivoted) ==
    [root_agents EXCEPT ![i].children = Append(@, pivoted)]

\* the iteration with the hostname scan in an else branch of "if pivoted['ProxyURL']"
AttachOneElif(root_agents, pivoted) ==
    LET byProxy == IF pivoted.ProxyURL # ""
                   THEN FirstProxyParent(root_agents, pivoted)
                   ELSE 0
        transport == Lower(pivoted.Transport)
        byHost == IF /\ pivoted.ProxyURL = ""
                      /\ \/ Contains("namedpipe", transport)
                         \/ Contains("pivot", transport)
                  THEN FirstHostParent(root_agents, pivoted)
                  ELSE 0
    IN IF byProxy # 0 THEN AddChild(root_agents, byProxy, pivoted)
       ELSE IF byHost # 0 THEN AddChild(root_agents, byHost, pivoted)
       ELSE Append(root_agents, pivoted)

\* the iteration with 'bind' added to the transports matched by hostname
AttachOneBindToo(root_agents, pivoted) ==
    LET byProxy == IF pivoted.ProxyURL # ""
                   THEN FirstProxyParent(root_agents, pivoted)
                   ELSE 0
        transport == Lower(pivoted.Transport)
        byHost == IF /\ byProxy = 0
                      /\ \/ Contains("namedpipe", transport)
                         \/ Contains("pivot", transport)
                         \/ Contains("bind", transport)
                  THEN FirstHostParent(root_agents, pivoted)
                  ELSE 0
    IN IF byProxy # 0 THEN AddChild(root_agents, byProxy, pivoted)
       ELSE IF byHost # 0 THEN AddChild(root_agents, byHost, pivoted)
       ELSE Append(root_agents, pivoted)

\* one iteration of "for pivoted in pivoted_agents"
AttachOne(root_agents, pivoted) ==
    LET byProxy == IF pivoted.ProxyURL # ""
                   THEN FirstProxyParent(root_agents, pivoted)
                   ELSE 0
        transport == Lower(pivoted.Transport)
        byHost == IF /\ byProxy = 0
                      /\ \/ Contains("namedpipe", transport)
                         \/ Contains("pivot", transport)
                  THEN FirstHostParent(root_agents, pivoted)
                  ELSE 0
    IN IF byProxy # 0 THEN AddChild(root_agents, byProxy, pivoted)
       ELSE IF byHost # 0 THEN AddChild(root_agents, byHost, pivoted)
       ELSE Append(root_agents, pivoted)

RECURSIVE AttachAll(_, _)
\* the loop "for pivoted in pivoted_agents"
AttachAll(root_agents, pivoted_agents) ==
    IF pivoted_agents = <<>> THEN root_agents
    ELSE AttachAll(AttachOne(root_agents, Head(pivoted_agents)),
                   Tail(pivoted_agents))

\* the partition loop with root_agents.append(agent) outside the else
RootCandidatesAll(all_agents) == all_agents

\* root_agents after the partition loop
RootCandidates(all_agents) == SelectSeq(all_agents, IsRootCandidate)

\* pivoted_agents after the partition loop
PivotedAgents(all_agents) == SelectSeq(all_agents, IsPivoted)

build_agent_tree(ss, bs) ==
    LET all_agents == AllAgents(ss, bs)
    IN AttachAll(RootCandidates(all_agents), PivotedAgents(all_agents))

---------------------------------------------------------------------------
(* track_agent_changes and is_agent_new *)

EmptyDict == [id \in {} |-> 0]

\* a walk of the forest that visits the roots and not their children
TreeNodesRootsOnly(tree) == [i \in 1..Len(tree) |-> tree[i]]

RECURSIVE TreeNodes(_)
\* the agents in the order the flattening loop visits them
TreeNodes(tree) ==
    IF tree = <<>> THEN <<>>
    ELSE <<Head(tree)>> \o Head(tree).children \o TreeNodes(Tail(tree))

\* the flattening without its inner loop over the children
FlattenRootsOnly(tree) ==
    [id \in {tree[i].ID : i \in 1..Len(tree)} |->
        tree[CHOOSE i \in 1..Len(tree) : tree[i].ID = id]]

\* current_agents: a later assignment to the same key wins
Flatten(tree) ==
    LET nodes == TreeNodes(tree)
        Last(id) == CHOOSE i \in 1..Len(nodes) :
                        /\ nodes[i].ID = id
                        /\ \A j \in 1..Len(nodes) : nodes[j].ID = id => j <= i
    IN [id \in {nodes[i].ID : i \in 1..Len(nodes)} |-> nodes[Last(id)]]

\* new_ids without the subtraction of previous_ids
NewIdsAllCurrent(current_agents, previous) == DOMAIN current_agents

\* new_ids = current_ids - previous_ids
NewIds(current_agents, previous) == DOMAIN current_agents \ DOMAIN previous

\* lost_ids without the subtraction of current_ids
LostIdsAllPrevious(current_agents, previous) == DOMAIN previous

\* lost_ids = previous_ids - current_ids
LostIds(current_agents, previous) == DOMAIN previous \ DOMAIN current_agents

\* the loop over new_ids without "if agent_id not in AGENT_FIRST_SEEN"
RecordFirstSeenOverwrite(first_seen, new_ids, current_time) ==
    [id \in DOMAIN first_seen \cup new_ids |->
        IF id \in new_ids THEN current_time ELSE first_seen[id]]

\* AGENT_FIRST_SEEN after the loop over new_ids
RecordFirstSeen(first_seen, new_ids, current_time) ==
    [id \in DOMAIN first_seen \cup new_ids |->
        IF id \in DOMAIN first_seen THEN first_seen[id] ELSE current_time]

\* the loop over lost_ids run over every agent that is away, lost before or now
RecordLostRefreshing(lost, lost_ids, previous, current_time) ==
    [id \in DOMAIN lost \cup lost_ids |->
        IF id \in lost_ids
        THEN [agent |-> previous[id], lost_time |-> current_time]
        ELSE IF id \in DOMAIN previous THEN lost[id]
        ELSE [agent |-> lost[id].agent, lost_time |-> current_time]]

\* LOST_AGENTS after the loop over lost_ids
RecordLost(lost, lost_ids, previous, current_time) ==
    [id \in DOMAIN lost \cup lost_ids |->
        IF id \in lost_ids
        THEN [agent |-> previous[id], lost_time |-> current_time]
        ELSE lost[id]]

\* expired_lost with >= for >
ExpiredLostAtLimit(lost, current_time) ==
    {id \in DOMAIN lost :
        current_time - lost[id].lost_time >= LOST_AGENT_DISPLAY_TIME}

\* expired_lost with a window one second longer
ExpiredLostLate(lost, current_time) ==
    {id \in DOMAIN lost :
        current_time - lost[id].lost_time > LOST_AGENT_DISPLAY_TIME + 1}

\* expired_lost
ExpiredLost(lost, current_time) ==
    {id \in DOMAIN lost :
        current_time - lost[id].lost_time > LOST_AGENT_DISPLAY_TIME}

\* LOST_AGENTS after "del LOST_AGENTS[agent_id]" for every expired entry
DropExpired(lost, current_time) ==
    [id \in DOMAIN lost \ ExpiredLost(lost, current_time) |-> lost[id]]

\* track_agent_changes with PREVIOUS_AGENTS.update(current_agents) for the
\* assignment of the copy
track_agent_changes_merging(tree, current_time, previous, first_seen, lost) ==
    LET current_agents == Flatten(tree)
        new_ids == NewIds(current_agents, previous)
        lost_ids == LostIds(current_agents, previous)
    IN [previous |-> [id \in DOMAIN previous \cup DOMAIN current_agents |->
                         IF id \in DOMAIN current_agents THEN current_agents[id]
                         ELSE previous[id]],
        first_seen |-> RecordFirstSeen(first_seen, new_ids, current_time),
        lost |-> DropExpired(RecordLost(lost, lost_ids, previous, current_time),
                             current_time),
        changes |-> [new_count |-> Cardinality(new_ids),
                     lost_count |-> Cardinality(lost_ids)]]

\* track_agent_changes that takes for new the IDs without a first-seen time
track_agent_changes_never_seen(tree, current_time, previous, first_seen, lost) ==
    LET current_agents == Flatten(tree)
        new_ids == DOMAIN current_agents \ DOMAIN first_seen
        lost_ids == LostIds(current_agents, previous)
    IN [previous |-> current_agents,
        first_seen |-> RecordFirstSeen(first_seen, new_ids, current_time),
        lost |-> DropExpired(RecordLost(lost, lost_ids, previous, current_time),
                             current_time),
        changes |-> [new_count |-> Cardinality(new_ids),
                     lost_count |-> Cardinality(lost_ids)]]

\* the globals and the return value of track_agent_changes(tree) at current_time
track_agent_changes(tree, current_time, previous, first_seen, lost) ==
    LET current_agents == Flatten(tree)
        new_ids == NewIds(current_agents, previous)
        lost_ids == LostIds(current_agents, previous)
    IN [previous |-> current_agents,
        first_seen |-> RecordFirstSeen(first_seen, new_ids, current_time),
        lost |-> DropExpired(RecordLost(lost, lost_ids, previous, current_time),
                             current_time),
        changes |-> [new_count |-> Cardinality(new_ids),
                     lost_count |-> Cardinality(lost_ids)]]

\* is_agent_new with <= for <
is_agent_new_inclusive(agent_id, first_seen, now) ==
    IF agent_id \notin DOMAIN first_seen THEN FALSE
    ELSE now - first_seen[agent_id] <= NEW_AGENT_TIMEOUT

is_agent_new(agent_id, first_seen, now) ==
    IF agent_id \notin DOMAIN first_seen THEN FALSE
    ELSE now - first_seen[agent_id] < NEW_AGENT_TIMEOUT

---------------------------------------------------------------------------
(* is_privileged, is_dead_or_late, count_unique_hosts, calculate_stats *)

privileged_names == {"administrator", "system", "nt authority\\system", "admin"}

\* is_privileged with "if" for "elif": the Linux rules apply on every OS
is_privileged_any_os(username, uid, os_name) ==
    LET username_lower == Lower(username)
        os_lower == Lower(os_name)
        uid_str == uid
    IN \/ /\ Contains("windows", os_lower)
          /\ \/ \E priv_name \in privileged_names : Contains(priv_name, username_lower)
             \/ Contains("S-1-5-18", uid_str)
             \/ EndsWith(uid_str, "-500")
       \/ username_lower = "root"
       \/ uid_str = "0"

is_privileged(username, uid, os_name) ==
    LET username_lower == Lower(username)
        os_lower == Lower(os_name)
        uid_str == uid
    IN IF Contains("windows", os_lower)
       THEN \/ \E priv_name \in privileged_names : Contains(priv_name, username_lower)
            \/ Contains("S-1-5-18", uid_str)
            \/ EndsWith(uid_str, "-500")
       ELSE IF \/ Contains("linux", os_lower)
               \/ Contains("unix", os_lower)
               \/ Contains("darwin", os_lower)
       THEN \/ username_lower = "root"
            \/ uid_str = "0"
       ELSE FALSE

\* is_dead_or_late that believes the dead flag of beacons only
is_dead_or_late_beacons_only(is_dead, next_checkin, agent_type) ==
    IF is_dead /\ agent_type = "beacon" THEN "dead" ELSE "alive"

is_dead_or_late(is_dead, next_checkin, agent_type) ==
    IF is_dead THEN "dead" ELSE "alive"

\* count_unique_hosts without the lower() of the hostnames
count_unique_hosts_case_sensitive(tree) ==
    LET nodes == TreeNodes(tree)
    IN Cardinality({nodes[i].Hostname : i \in 1..Len(nodes)} \ {""})

count_unique_hosts(tree) ==
    LET nodes == TreeNodes(tree)
    IN Cardinality({Lower(nodes[i].Hostname) : i \in 1..Len(nodes)} \ {""})

\* stats as calculate_stats initialises it
EmptyStats ==
    [total_agents |-> 0, privileged |-> 0, unprivileged |-> 0, windows |-> 0,
     linux |-> 0, other_os |-> 0, protocols |-> EmptyDict, new_agents |-> 0,
     dead_agents |-> 0]

\* stats['protocols'][transport] = stats['protocols'].get(transport, 0) + 1
CountProtocol(protocols, transport) ==
    [t \in DOMAIN protocols \cup {transport} |->
        IF t # transport THEN protocols[t]
        ELSE IF t \in DOMAIN protocols THEN protocols[t] + 1 ELSE 1]

\* count_agent(agent), the closure of calculate_stats
count_agent(st, agent, first_seen, now) ==
    LET privileged == is_privileged(agent.Username, agent.UID, agent.OS)
        os_lower == Lower(agent.OS)
        is_windows == Contains("windows", os_lower)
        is_linux == ~is_windows /\ Contains("linux", os_lower)
        dead == is_dead_or_late(agent.IsDead, 0, agent.type) = "dead"
    IN [total_agents |-> st.total_agents + 1,
        privileged |-> st.privileged + (IF privileged THEN 1 ELSE 0),
        unprivileged |-> st.unprivileged + (IF privileged THEN 0 ELSE 1),
        windows |-> st.windows + (IF is_windows THEN 1 ELSE 0),
        linux |-> st.linux + (IF is_linux THEN 1 ELSE 0),
        other_os |-> st.other_os + (IF is_windows \/ is_linux THEN 0 ELSE 1),
        protocols |-> CountProtocol(st.protocols, Upper(agent.Transport)),
        new_agents |-> st.new_agents
                           + (IF is_agent_new(agent.ID, first_seen, now) THEN 1 ELSE 0),
        dead_agents |-> st.dead_agents + (IF dead THEN 1 ELSE 0)]

RECURSIVE CountAgents(_, _, _, _)
\* the loop of calculate_stats over the roots and their children
CountAgents(st, nodes, first_seen, now) ==
    IF nodes = <<>> THEN st
    ELSE CountAgents(count_agent(st, Head(nodes), first_seen, now), Tail(nodes),
                     first_seen, now)

calculate_stats(tree, first_seen, now) ==
    CountAgents(EmptyStats, TreeNodes(tree), first_seen, now)

---------------------------------------------------------------------------
(* draw_graph: what it computes from the tree and the tracker *)

\* stats of draw_graph; it returns before calculate_stats when there are no agents
DrawStats(tree, total_sessions, total_beacons, first_seen, now) ==
    IF total_sessions + total_beacons = 0 THEN EmptyStats
    ELSE calculate_stats(tree, first_seen, now)

\* IDs of the agents of the tree for which is_agent_new holds at time now;
\* draw_graph returns before the tree is walked when there are no agents
NewBadges(tree, total_sessions, total_beacons, first_seen, now) ==
    IF total_sessions + total_beacons = 0 THEN {}
    ELSE LET nodes == TreeNodes(tree)
         IN {nodes[i].ID : i \in {j \in 1..Len(nodes) :
                                    is_agent_new(nodes[j].ID, first_seen, now)}}

---------------------------------------------------------------------------
(* What the Sliver server returns *)

Raw(id, hostname, username, os, transport, proxy, uid, dead, next) ==
    [ID |-> id, Hostname |-> hostname, Username |-> username, OS |-> os,
     Transport |-> transport, ProxyURL |-> proxy, UID |-> uid,
     IsDead |-> dead, NextCheckin |-> next]

\* the agents of the monitored network: one session and one beacon that
\* pivots through the session's host
LoopSession == Raw("s1", "WIN-01", "bob", "windows", "mtls", "", "S-1-5-21-7-1001", FALSE, 0)
LoopBeacon == Raw("b1", "WIN-01", "NT AUTHORITY\\SYSTEM", "windows", "tcppivot", "", "S-1-5-18", FALSE, 60)

\* the (sessions, beacons) pairs get_sliver_data may return
Feeds ==
    {<<ss, bs>> : ss \in {<<>>, <<LoopSession>>},
                  bs \in {<<>>, <<LoopBeacon>>}}

\* seconds that pass between two iterations of the loop
Deltas == {1, 299, 300}

\* identifiers is_agent_new may be asked about; "zz" is never an agent
AgentIds == {"s1", "b1", "zz"}

\* IDs of the records fetched in the current tick
RawIds(ss, bs) == {ss[i].ID : i \in 1..Len(ss)} \cup {bs[i].ID : i \in 1..Len(bs)}

TrackerState == [previous |-> PREVIOUS_AGENTS, first_seen |-> AGENT_FIRST_SEEN,
                 lost |-> LOST_AGENTS]

---------------------------------------------------------------------------
(* monitor_loop *)

Init ==
    /\ pc = "fetch"
    /\ clock = 0
    /\ ticks = 0
    /\ sessions = <<>>
    /\ beacons = <<>>
    /\ agent_tree = <<>>
    /\ changes = [new_count |-> 0, lost_count |-> 0]
    /\ PREVIOUS_AGENTS = EmptyDict
    /\ AGENT_FIRST_SEEN = EmptyDict
    /\ LOST_AGENTS = EmptyDict
    /\ new_badges = {}
    /\ unique_hosts = 0
    /\ stats = EmptyStats
    /\ tickStart = [previous |-> EmptyDict, first_seen |-> EmptyDict, lost |-> EmptyDict]
    /\ prevTickIds = <<{}, {}>>
    /\ steps = <<>>

\* sessions, beacons = await get_sliver_data(config_file)
Fetch ==
    /\ pc = "fetch"
    /\ ticks < MaxTicks
    /\ \E feed \in Feeds :
          /\ sessions' = feed[1]
          /\ beacons' = feed[2]
    /\ ticks' = ticks + 1
    /\ tickStart' = TrackerState
    /\ pc' = "build"
    /\ UNCHANGED <<clock, agent_tree, changes, PREVIOUS_AGENTS, AGENT_FIRST_SEEN,
                   LOST_AGENTS, new_badges, unique_hosts, stats, prevTickIds>>
    /\ steps' = Append(steps, "fetch")

\* get_sliver_data raises (connection refused, RPC error)
FetchFail ==
    /\ pc = "fetch"
    /\ ticks < MaxTicks
    /\ ticks' = ticks + 1
    /\ tickStart' = TrackerState
    /\ pc' = "retry"
    /\ UNCHANGED <<clock, sessions, beacons, agent_tree, changes, PREVIOUS_AGENTS,
                   AGENT_FIRST_SEEN, LOST_AGENTS, new_badges, unique_hosts, stats, prevTickIds, steps>>

\* variant: the iteration goes from the build straight to the drawing
BuildSkipTrack ==
    /\ pc = "build"
    /\ agent_tree' = build_agent_tree(sessions, beacons)
    /\ pc' = "draw"
    /\ UNCHANGED <<clock, ticks, sessions, beacons, changes, PREVIOUS_AGENTS,
                   AGENT_FIRST_SEEN, LOST_AGENTS, new_badges, unique_hosts, stats, tickStart, prevTickIds>>
    /\ steps' = Append(steps, "build")

\* agent_tree = build_agent_tree(sessions, beacons)
Build ==
    /\ pc = "build"
    /\ agent_tree' = build_agent_tree(sessions, beacons)
    /\ pc' = "track"
    /\ UNCHANGED <<clock, ticks, sessions, beacons, changes, PREVIOUS_AGENTS,
                   AGENT_FIRST_SEEN, LOST_AGENTS, new_badges, unique_hosts, stats, tickStart, prevTickIds>>
    /\ steps' = Append(steps, "build")

\* changes = track_agent_changes(agent_tree)
Track ==
    /\ pc = "track"
    /\ LET r == track_agent_changes(agent_tree, clock, PREVIOUS_AGENTS,
                                    AGENT_FIRST_SEEN, LOST_AGENTS)
       IN /\ PREVIOUS_AGENTS' = r.previous
          /\ AGENT_FIRST_SEEN' = r.first_seen
          /\ LOST_AGENTS' = r.lost
          /\ changes' = r.changes
    /\ prevTickIds' = <<RawIds(sessions, beacons), prevTickIds[1]>>
    /\ pc' = "draw"
    /\ UNCHANGED <<clock, ticks, sessions, beacons, agent_tree, new_badges, unique_hosts, stats, tickStart>>
    /\ steps' = Append(steps, "track")

\* clear_screen(); graph = draw_graph(...); print(graph)
Draw ==
    /\ pc = "draw"
    /\ unique_hosts' = count_unique_hosts(agent_tree)
    /\ new_badges' = NewBadges(agent_tree, Len(sessions), Len(beacons),
                               AGENT_FIRST_SEEN, clock)
    /\ stats' = DrawStats(agent_tree, Len(sessions), Len(beacons),
                          AGENT_FIRST_SEEN, clock)
    /\ pc' = "sleep"
    /\ UNCHANGED <<clock, ticks, sessions, beacons, agent_tree, changes,
                   PREVIOUS_AGENTS, AGENT_FIRST_SEEN, LOST_AGENTS, tickStart,
                   prevTickIds>>
    /\ steps' = Append(steps, "render")

\* draw_graph or print raises (e.g. UnicodeEncodeError, BrokenPipeError)
DrawFail ==
    /\ pc = "draw"
    /\ pc' = "retry"
    /\ UNCHANGED <<clock, ticks, sessions, beacons, agent_tree, changes,
                   PREVIOUS_AGENTS, AGENT_FIRST_SEEN, LOST_AGENTS, new_badges, unique_hosts, stats,
                   tickStart, prevTickIds, steps>>

\* The locals of an iteration are dead once it ends: the next iteration assigns
\* each of them before it reads it.  The model clears them, and the history of
\* the tick with them.
EndOfIteration ==
    /\ sessions' = <<>>
    /\ beacons' = <<>>
    /\ agent_tree' = <<>>
    /\ changes' = [new_count |-> 0, lost_count |-> 0]
    /\ new_badges' = {}
    /\ unique_hosts' = 0
    /\ stats' = EmptyStats
    /\ tickStart' = TrackerState
    /\ steps' = <<>>

\* await asyncio.sleep(refresh_interval) at the end of the try block
Sleep ==
    /\ pc = "sleep"
    /\ \E d \in Deltas : clock' = clock + d
    /\ EndOfIteration
    /\ pc' = "fetch"
    /\ UNCHANGED <<ticks, PREVIOUS_AGENTS, AGENT_FIRST_SEEN, LOST_AGENTS, prevTickIds>>

\* except Exception: print the error, await asyncio.sleep(refresh_interval)
RetrySleep ==
    /\ pc = "retry"
    /\ \E d \in Deltas : clock' = clock + d
    /\ EndOfIteration
    /\ pc' = "fetch"
    /\ UNCHANGED <<ticks, PREVIOUS_AGENTS, AGENT_FIRST_SEEN, LOST_AGENTS, prevTickIds>>

\* except Exception: clear_screen(), then print raises inside the handler
\* (stdout is a closed pipe, or the message cannot be encoded).  The exception
\* leaves the while loop and monitor_loop; main reports it and calls
\* sys.exit(1).
RetryFail ==
    /\ pc = "retry"
    /\ pc' = "failed"
    /\ UNCHANGED <<clock, ticks, sessions, beacons, agent_tree, changes,
                   PREVIOUS_AGENTS, AGENT_FIRST_SEEN, LOST_AGENTS, new_badges, unique_hosts, stats,
                   tickStart, prevTickIds, steps>>

\* Ctrl+C: signal_handler or the KeyboardInterrupt handler calls sys.exit(0)
Interrupt ==
    /\ pc \in {"fetch", "sleep", "retry"}
    /\ pc' = "exited"
    /\ UNCHANGED <<clock, ticks, sessions, beacons, agent_tree, changes,
                   PREVIOUS_AGENTS, AGENT_FIRST_SEEN, LOST_AGENTS, new_badges, unique_hosts, stats,
                   tickStart, prevTickIds, steps>>

Next ==
    \/ Fetch
    \/ FetchFail
    \/ Build
    \/ Track
    \/ Draw
    \/ DrawFail
    \/ Sleep
    \/ RetrySleep
    \/ RetryFail
    \/ Interrupt

Spec == Init /\ [][Next]_vars

\* The loop under the scheduling the code relies on: a call that was started
\* returns or raises, and a sleep that was started ends.  Nothing obliges the
\* user to press Ctrl+C.  Each condition is weak fairness of the named actions
\* of Next, written on pc alone: in a behaviour of Spec a step that takes pc
\* from "build" to "track" is a Build step and Build is enabled exactly where
\* pc = "build", and likewise for the other stages.
Fairness ==
    /\ WF_pc(pc = "fetch" /\ ticks < MaxTicks /\ pc' \in {"build", "retry"})  \* Fetch \/ FetchFail
    /\ WF_pc(pc = "build" /\ pc' = "track")                                   \* Build
    /\ WF_pc(pc = "track" /\ pc' = "draw")                                    \* Track
    /\ WF_pc(pc = "draw" /\ pc' \in {"sleep", "retry"})                       \* Draw \/ DrawFail
    /\ WF_pc(pc = "sleep" /\ pc' = "fetch")                                   \* Sleep
    /\ WF_pc(pc = "retry" /\ pc' \in {"fetch", "failed"})                     \* RetrySleep \/ RetryFail

SpecFair == Spec /\ Fairness

---------------------------------------------------------------------------
(* main with --once: run_once is one tick, then the process ends.  pc is    *)
(* "exited" after exit status 0 and "failed" after sys.exit(1).             *)

InitOnce ==
    /\ pc = "once_fetch"
    /\ clock = 0
    /\ ticks = 0
    /\ sessions = <<>>
    /\ beacons = <<>>
    /\ agent_tree = <<>>
    /\ changes = [new_count |-> 0, lost_count |-> 0]
    /\ PREVIOUS_AGENTS = EmptyDict
    /\ AGENT_FIRST_SEEN = EmptyDict
    /\ LOST_AGENTS = EmptyDict
    /\ new_badges = {}
    /\ unique_hosts = 0
    /\ stats = EmptyStats
    /\ tickStart = [previous |-> EmptyDict, first_seen |-> EmptyDict, lost |-> EmptyDict]
    /\ prevTickIds = <<{}, {}>>
    /\ steps = <<>>

\* sessions, beacons = await get_sliver_data(config_file)
FetchOnce ==
    /\ pc = "once_fetch"
    /\ \E feed \in Feeds :
          /\ sessions' = feed[1]
          /\ beacons' = feed[2]
    /\ ticks' = ticks + 1
    /\ tickStart' = TrackerState
    /\ steps' = Append(steps, "fetch")
    /\ pc' = "once_build"
    /\ UNCHANGED <<clock, agent_tree, changes, PREVIOUS_AGENTS, AGENT_FIRST_SEEN,
                   LOST_AGENTS, new_badges, unique_hosts, stats, prevTickIds>>

\* get_sliver_data raises: except Exception prints the error, sys.exit(1)
FetchFailOnce ==
    /\ pc = "once_fetch"
    /\ ticks' = ticks + 1
    /\ tickStart' = TrackerState
    /\ pc' = "failed"
    /\ UNCHANGED <<clock, sessions, beacons, agent_tree, changes, PREVIOUS_AGENTS,
                   AGENT_FIRST_SEEN, LOST_AGENTS, new_badges, unique_hosts, stats,
                   prevTickIds, steps>>

\* agent_tree = build_agent_tree(sessions, beacons)
BuildOnce ==
    /\ pc = "once_build"
    /\ agent_tree' = build_agent_tree(sessions, beacons)
    /\ steps' = Append(steps, "build")
    /\ pc' = "once_track"
    /\ UNCHANGED <<clock, ticks, sessions, beacons, changes, PREVIOUS_AGENTS,
                   AGENT_FIRST_SEEN, LOST_AGENTS, new_badges, unique_hosts, stats,
                   tickStart, prevTickIds>>

\* changes = track_agent_changes(agent_tree)
TrackOnce ==
    /\ pc = "once_track"
    /\ LET r == track_agent_changes(agent_tree, clock, PREVIOUS_AGENTS,
                                    AGENT_FIRST_SEEN, LOST_AGENTS)
       IN /\ PREVIOUS_AGENTS' = r.previous
          /\ AGENT_FIRST_SEEN' = r.first_seen
          /\ LOST_AGENTS' = r.lost
          /\ changes' = r.changes
    /\ prevTickIds' = <<RawIds(sessions, beacons), prevTickIds[1]>>
    /\ steps' = Append(steps, "track")
    /\ pc' = "once_draw"
    /\ UNCHANGED <<clock, ticks, sessions, beacons, agent_tree, new_badges,
                   unique_hosts, stats, tickStart>>

\* clear_screen(); graph = draw_graph(...); print(graph); run_once returns
DrawOnce ==
    /\ pc = "once_draw"
    /\ unique_hosts' = count_unique_hosts(agent_tree)
    /\ new_badges' = NewBadges(agent_tree, Len(sessions), Len(beacons),
                               AGENT_FIRST_SEEN, clock)
    /\ stats' = DrawStats(agent_tree, Len(sessions), Len(beacons),
                          AGENT_FIRST_SEEN, clock)
    /\ steps' = Append(steps, "render")
    /\ pc' = "exited"
    /\ UNCHANGED <<clock, ticks, sessions, beacons, agent_tree, changes,
                   PREVIOUS_AGENTS, AGENT_FIRST_SEEN, LOST_AGENTS, tickStart,
                   prevTickIds>>

\* draw_graph or print raises: except Exception prints the error, sys.exit(1)
DrawFailOnce ==
    /\ pc = "once_draw"
    /\ pc' = "failed"
    /\ UNCHANGED <<clock, ticks, sessions, beacons, agent_tree, changes,
                   PREVIOUS_AGENTS, AGENT_FIRST_SEEN, LOST_AGENTS, new_badges,
                   unique_hosts, stats, tickStart, prevTickIds, steps>>

\* Ctrl+C while the fetch is awaited: signal_handler calls sys.exit(0)
InterruptOnce ==
    /\ pc = "once_fetch"
    /\ pc' = "exited"
    /\ UNCHANGED <<clock, ticks, sessions, beacons, agent_tree, changes,
                   PREVIOUS_AGENTS, AGENT_FIRST_SEEN, LOST_AGENTS, new_badges,
                   unique_hosts, stats, tickStart, prevTickIds, steps>>

NextOnce ==
    \/ FetchOnce
    \/ FetchFailOnce
    \/ BuildOnce
    \/ TrackOnce
    \/ DrawOnce
    \/ DrawFailOnce
    \/ InterruptOnce

\* main: args.once selects run_once, otherwise monitor_loop
InitMain == Init \/ InitOnce

NextMain == Next \/ NextOnce

SpecMain == InitMain /\ [][NextMain]_vars

---------------------------------------------------------------------------
(* build_agent_tree and the statistics on their own: every input of at most *)
(* MaxAgents records                                                       *)

TreeSessions ==
    {Raw("s1", "WIN-01", "bob", "windows", "mtls", "", "S-1-5-21-7-1001", FALSE, 0),
     Raw("s2", "web-01", "root", "linux", "http", "", "0", FALSE, 0),
     Raw("s3", "WIN-01", "Administrator", "Windows 10", "namedpipe", "", "S-1-5-21-7-500", FALSE, 0),
     Raw("s4", "win-01", "alice", "windows", "TCPPivot", "", "S-1-5-21-7-1002", TRUE, 0),
     Raw("s5", "", "admin", "darwin", "mtls", "", "501", FALSE, 0)}

TreeBeacons ==
    {Raw("b1", "WIN-01", "NT AUTHORITY\\SYSTEM", "windows", "tcppivot", "", "S-1-5-18", FALSE, 60),
     Raw("b2", "WIN-01", "bob", "windows", "bind", "", "S-1-5-21-7-1001", FALSE, 60),
     Raw("b3", "db-01", "postgres", "linux", "http", "tcp://s1:8443", "1000", FALSE, 60),
     Raw("b4", "db-02", "root", "Linux", "dns", "http://web-01:8080/?via=s1", "0", TRUE, 60),
     Raw("b5", "WIN-01", "bob", "windows", "tcppivot", "tcp://10.0.0.9:1080", "S-1-5-21-7-1001", FALSE, 60),
     Raw("b6", "web-01", "www", "freebsd", "mtls", "", "80", FALSE, 60)}

\* sequences of at most n records of S with pairwise distinct IDs
DistinctSeqs(S, n) ==
    {q \in UNION {[1..k -> S] : k \in 0..n} :
        \A i, j \in 1..Len(q) : q[i].ID = q[j].ID => i = j}

TreeInputs ==
    {<<ss, bs>> \in DistinctSeqs(TreeSessions, MaxAgents)
                    \X DistinctSeqs(TreeBeacons, MaxAgents) :
        Len(ss) + Len(bs) <= MaxAgents}

InitTree ==
    /\ pc = "input"
    /\ \E input \in TreeInputs :
          /\ sessions = input[1]
          /\ beacons = input[2]
    /\ clock = 0
    /\ ticks = 0
    /\ agent_tree = <<>>
    /\ changes = [new_count |-> 0, lost_count |-> 0]
    /\ PREVIOUS_AGENTS = EmptyDict
    /\ AGENT_FIRST_SEEN = EmptyDict
    /\ LOST_AGENTS = EmptyDict
    /\ new_badges = {}
    /\ unique_hosts = 0
    /\ stats = EmptyStats
    /\ tickStart = [previous |-> EmptyDict, first_seen |-> EmptyDict, lost |-> EmptyDict]
    /\ prevTickIds = <<{}, {}>>
    /\ steps = <<>>

\* agent_tree = build_agent_tree(sessions, beacons)
BuildTree ==
    /\ pc = "input"
    /\ agent_tree' = build_agent_tree(sessions, beacons)
    /\ pc' = "built"
    /\ UNCHANGED <<clock, ticks, sessions, beacons, changes, PREVIOUS_AGENTS,
                   AGENT_FIRST_SEEN, LOST_AGENTS, new_badges, unique_hosts, stats, tickStart, prevTickIds, steps>>

\* unique_hosts = count_unique_hosts(agent_tree); stats = calculate_stats(agent_tree)
StatsTree ==
    /\ pc = "built"
    /\ unique_hosts' = count_unique_hosts(agent_tree)
    /\ stats' = calculate_stats(agent_tree, AGENT_FIRST_SEEN, clock)
    /\ pc' = "counted"
    /\ UNCHANGED <<clock, ticks, sessions, beacons, agent_tree, changes,
                   PREVIOUS_AGENTS, AGENT_FIRST_SEEN, LOST_AGENTS, new_badges,
                   tickStart, prevTickIds, steps>>

NextTree ==
    \/ BuildTree
    \/ StatsTree

SpecTree == InitTree /\ [][NextTree]_vars

---------------------------------------------------------------------------
(* The statistics of a single session, over the account it runs as *)

PrivUsernames ==
    {"bob", "root", "Root", "rooter", "Administrator", "sysadmin", "SYSTEM",
     "NT AUTHORITY\\SYSTEM", ""}

PrivOSNames ==
    {"windows", "Windows Server 2019", "linux", "GNU/Linux", "darwin", "Unix",
     "freebsd", ""}

PrivUIDs ==
    {"", "0", "1000", "S-1-5-18", "S-1-5-21-7-500", "S-1-5-21-7-5001", "500"}

InitPriv ==
    /\ pc = "input"
    /\ \E username \in PrivUsernames, os \in PrivOSNames, uid \in PrivUIDs :
          sessions = <<Raw("p1", "HOST-1", username, os, "mtls", "", uid, FALSE, 0)>>
    /\ beacons = <<>>
    /\ clock = 0
    /\ ticks = 0
    /\ agent_tree = <<>>
    /\ changes = [new_count |-> 0, lost_count |-> 0]
    /\ PREVIOUS_AGENTS = EmptyDict
    /\ AGENT_FIRST_SEEN = EmptyDict
    /\ LOST_AGENTS = EmptyDict
    /\ new_badges = {}
    /\ unique_hosts = 0
    /\ stats = EmptyStats
    /\ tickStart = [previous |-> EmptyDict, first_seen |-> EmptyDict, lost |-> EmptyDict]
    /\ prevTickIds = <<{}, {}>>
    /\ steps = <<>>

SpecPriv == InitPriv /\ [][NextTree]_vars

---------------------------------------------------------------------------
(* Properties of the tracker, checked under Spec *)

\* the step of a tick in which track_agent_changes runs
TrackStep == pc = "track" /\ pc' = "draw"

\* IDs of the records of the current tick
CurIds == RawIds(sessions, beacons)

\* IDs of the records of the last tick whose tracker ran, and of the one before
PrevIds == prevTickIds[1]
PrevPrevIds == prevTickIds[2]

\* C1: after every update LOST_AGENTS holds no ID that is also a key of
\* PREVIOUS_AGENTS.  The code never deletes the entry of an agent that comes
\* back, so this fails.
C1_LostDisjointFromKnown ==
    DOMAIN LOST_AGENTS \cap DOMAIN PREVIOUS_AGENTS = {}

\* C2: an agent present at one tick, absent at the next and present again at
\* the third: the second update returns lost_count = 1 and puts the agent in
\* LOST_AGENTS, the third returns new_count = 1 and leaves the agent out of
\* LOST_AGENTS.  (The agent is the only one to leave and to come back.)
C2_LostThenReappears ==
    [][TrackStep =>
        \A a \in AgentIds :
            /\ (a \in PrevIds /\ PrevIds \ CurIds = {a}) =>
                  /\ changes'.lost_count = 1
                  /\ a \in DOMAIN LOST_AGENTS'
            /\ (a \in PrevPrevIds /\ a \notin PrevIds /\ CurIds \ PrevIds = {a}) =>
                  /\ changes'.new_count = 1
                  /\ a \notin DOMAIN LOST_AGENTS']_vars

\* C3: a tick that ends in the except branch leaves the three dictionaries as
\* they were when the tick began.  A failure of draw_graph or print comes
\* after track_agent_changes has run, so this fails.
C3_FailedTickLeavesStateUnchanged ==
    pc = "retry" => TrackerState = tickStart

\* C4 as claimed: an entry that is not renewed by the update is kept iff
\* now - lost_time < 300, so it is gone after an update at lost_time + 300.
C4_RemovedAtRetention ==
    [][TrackStep =>
        \A id \in DOMAIN LOST_AGENTS \ (PrevIds \ CurIds) :
            id \in DOMAIN LOST_AGENTS' <=>
                clock - LOST_AGENTS[id].lost_time < LOST_AGENT_DISPLAY_TIME]_vars

\* C4 as amended: an entry that is not renewed by the update is removed iff
\* now - lost_time > 300: it is kept, unchanged, by an update at
\* lost_time + 299 and at lost_time + 300 and removed by one at lost_time + 301.
C4_RemovedAfterRetention ==
    [][TrackStep =>
        \A id \in DOMAIN LOST_AGENTS \ (PrevIds \ CurIds) :
            LET age == clock - LOST_AGENTS[id].lost_time
            IN /\ id \in DOMAIN LOST_AGENTS' <=> age <= LOST_AGENT_DISPLAY_TIME
               /\ id \in DOMAIN LOST_AGENTS' => LOST_AGENTS'[id] = LOST_AGENTS[id]
               /\ age \in {299, 300} => id \in DOMAIN LOST_AGENTS'
               /\ age = 301 => id \notin DOMAIN LOST_AGENTS']_vars

\* an update has just run 300 seconds after a loss and the entry is still there
C4_Witness ==
    /\ pc = "draw"
    /\ \E id \in DOMAIN LOST_AGENTS : clock - LOST_AGENTS[id].lost_time = 300

\* C5: is_agent_new(id) is true iff id has a first-seen time and less than 300
\* seconds have passed since: true 299 seconds after, false 300 and 301 seconds
\* after, false for an ID never seen; and the badges draw_graph gives follow it.
C5_IsRecentBoundary ==
    /\ \A id \in AgentIds :
          LET recent == is_agent_new(id, AGENT_FIRST_SEEN, clock)
          IN IF id \in DOMAIN AGENT_FIRST_SEEN
             THEN /\ recent <=> clock - AGENT_FIRST_SEEN[id] < 300
                  /\ clock = AGENT_FIRST_SEEN[id] + 299 => recent
                  /\ clock = AGENT_FIRST_SEEN[id] + 300 => ~recent
                  /\ clock = AGENT_FIRST_SEEN[id] + 301 => ~recent
             ELSE ~recent
    /\ pc = "sleep" =>
          new_badges = {id \in CurIds : clock - AGENT_FIRST_SEEN[id] <= 299}

\* draw_graph has badged an agent first seen 299 seconds ago
C5_Witness ==
    /\ pc = "sleep"
    /\ \E id \in new_badges : clock = AGENT_FIRST_SEEN[id] + 299

\* C6: an ID fetched in two consecutive ticks is counted neither as new nor as
\* lost by the second update, gets no new LOST_AGENTS entry from it and keeps
\* its first-seen time.
C6_StayingAgentUntouched ==
    [][TrackStep =>
        LET staying == PrevIds \cap CurIds
        IN /\ changes'.new_count <= Cardinality(CurIds \ staying)
           /\ changes'.lost_count <= Cardinality(PrevIds \ staying)
           /\ \A id \in staying :
                 /\ id \in DOMAIN AGENT_FIRST_SEEN
                 /\ AGENT_FIRST_SEEN'[id] = AGENT_FIRST_SEEN[id]
                 /\ id \in DOMAIN LOST_AGENTS' =>
                       /\ id \in DOMAIN LOST_AGENTS
                       /\ LOST_AGENTS'[id] = LOST_AGENTS[id]]_vars

\* an update has just run on a tick that shares an agent with the tick before
C6_Witness ==
    /\ pc = "draw"
    /\ PrevIds \cap PrevPrevIds # {}

\* C7: the first update of a process (the three dictionaries empty) returns
\* new_count = the number of distinct IDs fetched and lost_count = 0, records
\* the current time as the first-seen time of each and leaves LOST_AGENTS empty.
C7_FirstTickAllNew ==
    [][(/\ TrackStep
        /\ PREVIOUS_AGENTS = EmptyDict
        /\ AGENT_FIRST_SEEN = EmptyDict
        /\ LOST_AGENTS = EmptyDict) =>
           /\ changes'.new_count = Cardinality(CurIds)
           /\ changes'.lost_count = 0
           /\ AGENT_FIRST_SEEN' = [id \in CurIds |-> clock]
           /\ LOST_AGENTS' = EmptyDict]_vars

\* the first iteration of the loop has tracked a root and its child
C7_Witness ==
    /\ pc = "draw"
    /\ ticks = 1
    /\ changes = [new_count |-> 2, lost_count |-> 0]
    /\ DOMAIN AGENT_FIRST_SEEN = {"s1", "b1"}

\* C8: every update returns new_count = |current IDs \ previous IDs| and
\* lost_count = |previous IDs \ current IDs|, the previous IDs being those of
\* the last tick whose tracker ran: nothing accumulates over the ticks.
C8_CountsArePerTick ==
    [][TrackStep =>
           /\ changes'.new_count = Cardinality(CurIds \ PrevIds)
           /\ changes'.lost_count = Cardinality(PrevIds \ CurIds)]_vars

\* an update of the third or a later iteration has just counted one arrival
\* and one departure
C8_Witness ==
    /\ pc = "draw"
    /\ ticks >= 3
    /\ changes = [new_count |-> 1, lost_count |-> 1]

\* C20: AGENT_FIRST_SEEN is written once per ID and only grows.  No step
\* removes an entry or changes the time of an existing one; only an update
\* adds entries, one with the current time for every ID fetched that has none
\* yet.  An ID that was absent from the previous tick and is back is counted
\* in new_count and keeps the time of its first appearance.
C20_FirstSeenWriteOnce ==
    [][/\ DOMAIN AGENT_FIRST_SEEN \subseteq DOMAIN AGENT_FIRST_SEEN'
       /\ \A id \in DOMAIN AGENT_FIRST_SEEN :
             AGENT_FIRST_SEEN'[id] = AGENT_FIRST_SEEN[id]
       /\ ~TrackStep => AGENT_FIRST_SEEN' = AGENT_FIRST_SEEN
       /\ TrackStep =>
             /\ DOMAIN AGENT_FIRST_SEEN' = DOMAIN AGENT_FIRST_SEEN \cup CurIds
             /\ \A id \in CurIds \ DOMAIN AGENT_FIRST_SEEN :
                   AGENT_FIRST_SEEN'[id] = clock
             /\ LET back == (CurIds \ PrevIds) \cap DOMAIN AGENT_FIRST_SEEN
                IN /\ changes'.new_count >= Cardinality(back)
                   /\ changes'.new_count = Cardinality(CurIds \ PrevIds)]_vars

\* an update has just counted as new an agent that was away for a tick and
\* whose first-seen time is older than this tick
C20_Witness ==
    /\ pc = "draw"
    /\ changes.new_count >= 1
    /\ \E id \in PrevIds \ PrevPrevIds :
          /\ id \in DOMAIN AGENT_FIRST_SEEN
          /\ AGENT_FIRST_SEEN[id] < clock

\* the nodes of a forest, every root and every child of a root, as a set
NodesOf(tree) ==
    {tree[i] : i \in 1..Len(tree)} \cup
    UNION {{tree[i].children[j] : j \in 1..Len(tree[i].children)} :
               i \in 1..Len(tree)}

\* C21: after every update the keys of PREVIOUS_AGENTS are exactly the IDs of
\* the records of the current tick, which are the IDs of the roots and the
\* children of the forest built from them, each key holding its node; no key
\* of an earlier tick is kept.
C21_KnownAgentsAreCurrentTick ==
    pc \in {"draw", "sleep"} =>
        /\ DOMAIN PREVIOUS_AGENTS = CurIds
        /\ DOMAIN PREVIOUS_AGENTS = {a.ID : a \in NodesOf(agent_tree)}
        /\ \A a \in NodesOf(agent_tree) : PREVIOUS_AGENTS[a.ID] = a
        /\ Cardinality(DOMAIN PREVIOUS_AGENTS) = Len(sessions) + Len(beacons)

\* an update has just replaced a set of known agents that held an agent
\* which the current tick does not have, and the current forest has a root
C21_Witness ==
    /\ pc = "draw"
    /\ DOMAIN tickStart.previous \ CurIds # {}
    /\ agent_tree # <<>>
    /\ DOMAIN PREVIOUS_AGENTS = {a.ID : a \in NodesOf(agent_tree)}

\* C24: for every update, the number of known agents after it is the number
\* before it plus new_count minus lost_count, and the IDs it counts as new
\* and the IDs it counts as lost are disjoint sets.
C24_Conservation ==
    [][TrackStep =>
        LET before == DOMAIN PREVIOUS_AGENTS
            after == DOMAIN PREVIOUS_AGENTS'
        IN /\ Cardinality(after) =
                 Cardinality(before) + changes'.new_count - changes'.lost_count
           /\ changes'.new_count = Cardinality(after \ before)
           /\ changes'.lost_count = Cardinality(before \ after)
           /\ (after \ before) \cap (before \ after) = {}]_vars

\* an update has just counted an arrival and no departure while an agent of
\* the tick before stayed, the arrival being an agent seen before
C24_Witness ==
    /\ pc = "draw"
    /\ changes = [new_count |-> 1, lost_count |-> 0]
    /\ Cardinality(DOMAIN PREVIOUS_AGENTS) = 2
    /\ \E id \in PrevIds \ PrevPrevIds : AGENT_FIRST_SEEN[id] < clock

\* C25: the LOST_AGENTS entry of an agent that has just disappeared holds the
\* agent as PREVIOUS_AGENTS had it, from the last tick in which it was
\* present, and the time of this update.  An update at which the agent is
\* still away leaves the entry as it is, if it keeps it, and does not count
\* the agent in lost_count.
C25_LostEntryIsSnapshot ==
    [][TrackStep =>
        /\ \A id \in PrevIds \ CurIds :
              /\ id \in DOMAIN PREVIOUS_AGENTS
              /\ PREVIOUS_AGENTS[id].ID = id
              /\ LOST_AGENTS'[id] =
                     [agent |-> PREVIOUS_AGENTS[id], lost_time |-> clock]
        /\ \A id \in DOMAIN LOST_AGENTS \ (PrevIds \cup CurIds) :
              /\ id \in DOMAIN LOST_AGENTS' => LOST_AGENTS'[id] = LOST_AGENTS[id]
              /\ changes'.lost_count = Cardinality((PrevIds \ CurIds) \ {id})]_vars

\* an update has just run with an agent away for the second tick in a row,
\* and its entry still carries the time of the earlier update
C25_Witness ==
    /\ pc = "draw"
    /\ \E id \in DOMAIN LOST_AGENTS \ (PrevIds \cup PrevPrevIds) :
          /\ LOST_AGENTS[id].lost_time < clock
          /\ LOST_AGENTS[id].agent.ID = id

---------------------------------------------------------------------------
(* Properties of build_agent_tree, checked under SpecTree *)

\* build_agent_tree has returned
Built == pc \in {"built", "counted"}

PivotWords == {"pivot", "namedpipe", "bind"}

\* a record's proxy URL is non-empty or its lowercased transport holds a pivot word
HasPivotSign(r) ==
    \/ r.ProxyURL # ""
    \/ \E w \in PivotWords : Contains(w, Lower(r.Transport))

RootIds == {agent_tree[i].ID : i \in 1..Len(agent_tree)}

ChildIds ==
    UNION {{agent_tree[i].children[j].ID : j \in 1..Len(agent_tree[i].children)} :
               i \in 1..Len(agent_tree)}

\* the fetched records in the order build_agent_tree reads them
InputRecords == sessions \o beacons

InputPos(id) == CHOOSE i \in 1..Len(InputRecords) : InputRecords[i].ID = id

\* C9 as claimed: only root candidates of the partition step receive children.
C9_OnlyRootCandidatesAreParents ==
    Built =>
        \A i \in 1..Len(agent_tree) :
            agent_tree[i].children # <<>> => ~HasPivotSign(agent_tree[i])

\* C9 as amended: the parents are entries of root_agents as it stands when the
\* child is processed: a root candidate of the partition step, or a pivoted
\* record appended as a fallback root before the child's turn.  A record
\* attached as a child is not in root_agents, has no children and is never a
\* parent.
C9_ParentsAreListedRoots ==
    Built =>
        /\ RootIds \cap ChildIds = {}
        /\ \A i \in 1..Len(agent_tree) :
              \A j \in 1..Len(agent_tree[i].children) :
                  LET parent == agent_tree[i]
                      child == parent.children[j]
                  IN /\ child.children = <<>>
                     /\ HasPivotSign(parent) =>
                           InputPos(parent.ID) < InputPos(child.ID)

\* a pivoted record that became a fallback root has received a child
C9_Witness ==
    /\ Built
    /\ \E i \in 1..Len(agent_tree) :
          /\ HasPivotSign(agent_tree[i])
          /\ agent_tree[i].children # <<>>

\* C10: the partition step puts a record in pivoted_agents iff its proxy URL
\* is non-empty or its lowercased transport contains "pivot", "namedpipe" or
\* "bind"; every other record is a root of the forest and nobody's child.
C10_PartitionAndPlainRoots ==
    Built =>
        LET all_agents == AllAgents(sessions, beacons)
            pivoted == PivotedAgents(all_agents)
            roots == RootCandidates(all_agents)
        IN /\ {pivoted[i].ID : i \in 1..Len(pivoted)} =
                 {InputRecords[i].ID : i \in {j \in 1..Len(InputRecords) :
                                                 HasPivotSign(InputRecords[j])}}
           /\ {roots[i].ID : i \in 1..Len(roots)} =
                 {InputRecords[i].ID : i \in {j \in 1..Len(InputRecords) :
                                                 ~HasPivotSign(InputRecords[j])}}
           /\ \A i \in 1..Len(InputRecords) :
                 ~HasPivotSign(InputRecords[i]) =>
                     /\ InputRecords[i].ID \in RootIds
                     /\ InputRecords[i].ID \notin ChildIds

\* a forest with a plain root and, beside it, a root whose mixed-case
\* transport made it pivoted and that shares the plain root's host but for case
C10_Witness ==
    /\ Built
    /\ \E i, k \in 1..Len(agent_tree) :
          /\ ~HasPivotSign(agent_tree[i])
          /\ HasPivotSign(agent_tree[k])
          /\ agent_tree[k].Transport # Lower(agent_tree[k].Transport)
          /\ Lower(agent_tree[k].Hostname) = Lower(agent_tree[i].Hostname)

\* the IDs of a sequence of agents, in its order
IdsOf(agents) == [i \in 1..Len(agents) |-> agents[i].ID]

\* the input records without a pivot sign, in input order
PlainRecords == SelectSeq(InputRecords, LAMBDA r : ~HasPivotSign(r))

\* q lists its records in the order the input has them
InInputOrder(q) ==
    \A i, k \in 1..Len(q) : i < k => InputPos(q[i].ID) < InputPos(q[k].ID)

\* C11: the roots are the root candidates of the partition step in input order
\* (sessions before beacons, each in the order fetched), followed by the
\* fallback roots in the order they were processed, which is again input
\* order; the children of every parent are in input order.
C11_ForestOrder ==
    Built =>
        LET n == Len(PlainRecords)
        IN /\ Len(agent_tree) >= n
           /\ IdsOf(SubSeq(agent_tree, 1, n)) = IdsOf(PlainRecords)
           /\ \A i \in (n + 1)..Len(agent_tree) : HasPivotSign(agent_tree[i])
           /\ InInputOrder(SubSeq(agent_tree, n + 1, Len(agent_tree)))
           /\ \A i \in 1..Len(agent_tree) : InInputOrder(agent_tree[i].children)
           /\ \A i, k \in 1..n :
                 (agent_tree[i].type = "beacon" /\ agent_tree[k].type = "session")
                     => k < i

\* a forest whose roots are a plain beacon and then a session that fell back
\* to a root, and the fallback root has a child
C11_Witness ==
    /\ Built
    /\ Len(agent_tree) = 2
    /\ agent_tree[1].type = "beacon" /\ ~HasPivotSign(agent_tree[1])
    /\ agent_tree[2].type = "session" /\ HasPivotSign(agent_tree[2])
    /\ agent_tree[2].children # <<>>

\* the input of the scenario: session s1 on WIN-01 over mtls, beacon b1 on
\* WIN-01 over tcppivot, neither with a proxy URL
OneSessionOneBeacon ==
    /\ Len(sessions) = 1 /\ Len(beacons) = 1
    /\ sessions[1].ID = "s1" /\ sessions[1].Hostname = "WIN-01"
    /\ sessions[1].Transport = "mtls" /\ sessions[1].ProxyURL = ""
    /\ beacons[1].ID = "b1" /\ beacons[1].Hostname = "WIN-01"
    /\ beacons[1].Transport = "tcppivot" /\ beacons[1].ProxyURL = ""

\* C12: for that input build_agent_tree returns the one root s1 with the one
\* child b1, count_unique_hosts returns 1 and total_agents is 2.
C12_ScenarioOneRootOneChild ==
    /\ (Built /\ OneSessionOneBeacon) =>
          /\ IdsOf(agent_tree) = <<"s1">>
          /\ IdsOf(agent_tree[1].children) = <<"b1">>
          /\ agent_tree[1].children[1].children = <<>>
    /\ (pc = "counted" /\ OneSessionOneBeacon) =>
          /\ unique_hosts = 1
          /\ stats.total_agents = 2

\* the statistics of the scenario's forest have been computed
C12_Witness ==
    /\ pc = "counted"
    /\ OneSessionOneBeacon

---------------------------------------------------------------------------
(* Properties of the statistics, checked under SpecTree *)

\* the nodes of the forest: every root and every child of a root
ForestNodes ==
    {<<i, 0>> : i \in 1..Len(agent_tree)} \cup
    UNION {{<<i, j>> : j \in 1..Len(agent_tree[i].children)} :
               i \in 1..Len(agent_tree)}

NodeAt(n) ==
    IF n[2] = 0 THEN agent_tree[n[1]] ELSE agent_tree[n[1]].children[n[2]]

\* no two nodes of the forest have the same hostname, case ignored
HostnamesDistinct ==
    \A m, n \in ForestNodes :
        m # n => Lower(NodeAt(m).Hostname) # Lower(NodeAt(n).Hostname)

\* C13 as claimed: unique_hosts <= the number of nodes, with equality iff the
\* hostnames of the nodes are pairwise distinct, case ignored.
C13_UniqueHostsEqualIffDistinct ==
    pc = "counted" =>
        /\ unique_hosts <= Cardinality(ForestNodes)
        /\ unique_hosts = Cardinality(ForestNodes) <=> HostnamesDistinct

\* C13 as amended: unique_hosts <= the number of nodes, with equality iff the
\* hostnames of the nodes are all non-empty and pairwise distinct, case
\* ignored: a node with an empty hostname is a node but not a host.
C13_UniqueHostsEqualIffDistinctNonEmpty ==
    pc = "counted" =>
        /\ unique_hosts <= Cardinality(ForestNodes)
        /\ stats.total_agents = Cardinality(ForestNodes)
        /\ unique_hosts = Cardinality(ForestNodes) <=>
              /\ HostnamesDistinct
              /\ \A n \in ForestNodes : NodeAt(n).Hostname # ""

\* a counted forest of several nodes with pairwise distinct hostnames, one of
\* them empty, and so fewer hosts than nodes
C13_Witness ==
    /\ pc = "counted"
    /\ Cardinality(ForestNodes) >= 2
    /\ HostnamesDistinct
    /\ \E n \in ForestNodes : NodeAt(n).Hostname = ""
    /\ unique_hosts < stats.total_agents

---------------------------------------------------------------------------
(* Properties of the forest as a whole, checked under SpecTree *)

\* the agent build_agent_tree makes of the i-th input record, without children
InputAgent(i) ==
    IF i <= Len(sessions) THEN SessionAgent(sessions[i])
    ELSE BeaconAgent(beacons[i - Len(sessions)])

\* C15: for records with pairwise distinct IDs the forest is a partition of
\* the records: every record is exactly one node, a root or a child of one
\* root, every node is a record of the input, no record is its own parent,
\* and a child has no children.
C15_ForestIsPartition ==
    Built =>
        /\ \A i \in 1..Len(InputRecords) :
              Cardinality({n \in ForestNodes : NodeAt(n).ID = InputRecords[i].ID}) = 1
        /\ \A n \in ForestNodes :
              \E i \in 1..Len(InputRecords) :
                  [NodeAt(n) EXCEPT !.children = <<>>] = InputAgent(i)
        /\ \A n \in ForestNodes :
              n[2] # 0 =>
                 /\ NodeAt(n).ID # agent_tree[n[1]].ID
                 /\ NodeAt(n).children = <<>>

\* a forest of three records: a root with a child beside a fallback root
C15_Witness ==
    /\ Built
    /\ Len(InputRecords) = 3
    /\ \E i, k \in 1..Len(agent_tree) :
          /\ agent_tree[i].children # <<>>
          /\ HasPivotSign(agent_tree[k])
          /\ agent_tree[k].children = <<>>

---------------------------------------------------------------------------
(* Properties of the attachment rules, checked under SpecTree *)

\* the node with this ID is the child of the root at index i and is nowhere
\* else in the forest
OnlyChildOf(id, i) ==
    /\ \E j \in 1..Len(agent_tree[i].children) : agent_tree[i].children[j].ID = id
    /\ Cardinality({n \in ForestNodes : NodeAt(n).ID = id}) = 1

\* the node with this ID is a root and is nowhere else in the forest
OnlyRoot(id) ==
    /\ id \in RootIds
    /\ Cardinality({n \in ForestNodes : NodeAt(n).ID = id}) = 1

\* the root candidate's ID or its hostname is a substring of the proxy URL
NamedInProxy(root, r) ==
    \/ Contains(root.ID, r.ProxyURL)
    \/ Contains(root.Hostname, r.ProxyURL)

\* the least index of a non-empty set of indices
First(hits) == CHOOSE i \in hits : \A k \in hits : i <= k

\* C16: a record with a non-empty proxy URL is the child of the first root
\* candidate, in root order, whose ID or whose hostname is a substring of the
\* proxy URL, both tested root by root in one scan, so that an earlier root
\* named by hostname wins over a later root named by ID; the record has that
\* one parent and is not a root.
C16_ProxyRuleFirstMatch ==
    Built =>
        \A p \in 1..Len(InputRecords) :
            LET r == InputRecords[p]
                hits == {i \in 1..Len(PlainRecords) : NamedInProxy(PlainRecords[i], r)}
            IN (r.ProxyURL # "" /\ hits # {}) =>
                   /\ agent_tree[First(hits)].ID = PlainRecords[First(hits)].ID
                   /\ OnlyChildOf(r.ID, First(hits))

\* a record was attached to a root its proxy URL names by hostname only,
\* while a later root is named by ID
C16_Witness ==
    /\ Built
    /\ \E i, k \in 1..Len(agent_tree) :
          /\ i < k
          /\ \E j \in 1..Len(agent_tree[i].children) :
                LET url == agent_tree[i].children[j].ProxyURL
                IN /\ url # ""
                   /\ ~Contains(agent_tree[i].ID, url)
                   /\ Contains(agent_tree[i].Hostname, url)
                   /\ Contains(agent_tree[k].ID, url)

\* the record has no proxy URL and its lowercased transport contains
\* "namedpipe" or "pivot"
PivotByTransportOnly(r) ==
    /\ r.ProxyURL = ""
    /\ \/ Contains("namedpipe", Lower(r.Transport))
       \/ Contains("pivot", Lower(r.Transport))

\* the roots of the forest that were in root_agents when the record r was
\* processed: the root candidates and the fallback roots made of earlier records
ListedRoots(r) ==
    {i \in 1..Len(agent_tree) :
        \/ ~HasPivotSign(agent_tree[i])
        \/ InputPos(agent_tree[i].ID) < InputPos(r.ID)}

\* C17 as claimed: such a record is the child of the first root candidate of
\* the partition step whose hostname equals its own, and a fallback root when
\* no root candidate has that hostname.
C17_HostRuleRootCandidates ==
    Built =>
        \A p \in 1..Len(InputRecords) :
            LET r == InputRecords[p]
                hits == {i \in 1..Len(PlainRecords) :
                             PlainRecords[i].Hostname = r.Hostname}
            IN PivotByTransportOnly(r) =>
                   IF hits # {} THEN OnlyChildOf(r.ID, First(hits))
                   ELSE OnlyRoot(r.ID)

\* C17 as amended: such a record is the child of the first root, in root
\* order, whose hostname is its own, character for character, among the roots
\* listed when it is processed (the root candidates, then the fallback roots
\* made of earlier records); when none of these has that hostname it becomes
\* a fallback root.
C17_HostRuleListedRoots ==
    Built =>
        \A p \in 1..Len(InputRecords) :
            LET r == InputRecords[p]
                hits == {i \in ListedRoots(r) : agent_tree[i].Hostname = r.Hostname}
            IN PivotByTransportOnly(r) =>
                   IF hits # {} THEN OnlyChildOf(r.ID, First(hits))
                   ELSE OnlyRoot(r.ID)

\* a record was attached by its hostname, and beside its parent stands a
\* fallback root whose hostname is the parent's but for the case of its letters
C17_Witness ==
    /\ Built
    /\ \E i, k \in 1..Len(agent_tree) :
          /\ \E j \in 1..Len(agent_tree[i].children) :
                /\ PivotByTransportOnly(agent_tree[i].children[j])
                /\ agent_tree[i].children[j].Hostname = agent_tree[i].Hostname
          /\ PivotByTransportOnly(agent_tree[k])
          /\ agent_tree[k].Hostname # agent_tree[i].Hostname
          /\ Lower(agent_tree[k].Hostname) = Lower(agent_tree[i].Hostname)

\* the record has a proxy URL that names none of the roots listed when it is
\* processed
ProxyNamesNoRoot(r) ==
    /\ r.ProxyURL # ""
    /\ \A i \in ListedRoots(r) : ~NamedInProxy(agent_tree[i], r)

\* C18 as claimed: the hostname rule is tried only for records without a
\* proxy URL, so a record whose proxy URL names no root becomes a fallback
\* root whatever its transport and hostname.
C18_HostRuleOnlyWithoutProxy ==
    Built =>
        \A p \in 1..Len(InputRecords) :
            ProxyNamesNoRoot(InputRecords[p]) => OnlyRoot(InputRecords[p].ID)

\* C18 as amended: the hostname rule is tried whenever the proxy rule found no
\* parent.  A record whose proxy URL names no root is the child of the first
\* listed root with its hostname when its lowercased transport contains
\* "namedpipe" or "pivot" and there is such a root, and a fallback root
\* otherwise.
C18_HostRuleAfterProxyRule ==
    Built =>
        \A p \in 1..Len(InputRecords) :
            LET r == InputRecords[p]
                transport == Lower(r.Transport)
                hits == {i \in ListedRoots(r) : agent_tree[i].Hostname = r.Hostname}
            IN ProxyNamesNoRoot(r) =>
                   IF /\ Contains("namedpipe", transport) \/ Contains("pivot", transport)
                      /\ hits # {}
                   THEN OnlyChildOf(r.ID, First(hits))
                   ELSE OnlyRoot(r.ID)

\* a record with a proxy URL that names no root was attached to a root with
\* its hostname
C18_Witness ==
    /\ Built
    /\ \E i \in 1..Len(agent_tree) :
          \E j \in 1..Len(agent_tree[i].children) :
              /\ ProxyNamesNoRoot(agent_tree[i].children[j])
              /\ agent_tree[i].children[j].Hostname = agent_tree[i].Hostname

\* C27: the empty string is a substring of every string, so a root candidate
\* whose hostname or ID is empty is named by every non-empty proxy URL: a
\* record with a proxy URL that names no earlier root candidate is the child
\* of the first root candidate with an empty hostname or ID.
C27_EmptyNameMatchesEveryProxy ==
    Built =>
        \A p \in 1..Len(InputRecords) :
            LET r == InputRecords[p]
                nameless == {i \in 1..Len(PlainRecords) :
                                \/ PlainRecords[i].Hostname = ""
                                \/ PlainRecords[i].ID = ""}
            IN (/\ r.ProxyURL # ""
                /\ nameless # {}
                /\ \A i \in 1..(First(nameless) - 1) :
                       ~NamedInProxy(PlainRecords[i], r)) =>
                   /\ NamedInProxy(PlainRecords[First(nameless)], r)
                   /\ agent_tree[First(nameless)].ID = PlainRecords[First(nameless)].ID
                   /\ OnlyChildOf(r.ID, First(nameless))

\* a record was attached to a root without a hostname whose ID its proxy URL
\* does not hold, although another root has the record's hostname
C27_Witness ==
    /\ Built
    /\ \E i, k \in 1..Len(agent_tree) :
          /\ agent_tree[i].Hostname = ""
          /\ \E j \in 1..Len(agent_tree[i].children) :
                LET child == agent_tree[i].children[j]
                IN /\ child.ProxyURL # ""
                   /\ ~Contains(agent_tree[i].ID, child.ProxyURL)
                   /\ agent_tree[k].Hostname = child.Hostname

\* the record is pivoted by the word "bind" in its transport and by nothing else
BindOnly(r) ==
    /\ r.ProxyURL = ""
    /\ Contains("bind", Lower(r.Transport))
    /\ ~Contains("pivot", Lower(r.Transport))
    /\ ~Contains("namedpipe", Lower(r.Transport))

\* C28: a record that is pivoted only because its transport contains "bind"
\* is nobody's child: it is a root of the forest, placed after every root
\* candidate of the partition step, whether or not a root has its hostname.
C28_BindOnlyIsFallbackRoot ==
    Built =>
        \A p \in 1..Len(InputRecords) :
            LET r == InputRecords[p]
            IN BindOnly(r) =>
                   /\ OnlyRoot(r.ID)
                   /\ \A i \in 1..Len(agent_tree) :
                         agent_tree[i].ID = r.ID => i > Len(PlainRecords)

\* a bind-only record stands as a root after a root candidate that has its
\* hostname
C28_Witness ==
    /\ Built
    /\ \E i, k \in 1..Len(agent_tree) :
          /\ i < k
          /\ ~HasPivotSign(agent_tree[i])
          /\ BindOnly(agent_tree[k])
          /\ agent_tree[i].Hostname = agent_tree[k].Hostname

---------------------------------------------------------------------------
(* Properties of is_privileged, checked under SpecPriv *)

\* the account of the single session of the input
Account == sessions[1]

WindowsRule(r) ==
    LET name == Lower(r.Username)
    IN \/ Contains("administrator", name)
       \/ Contains("system", name)
       \/ Contains("admin", name)
       \/ Contains("S-1-5-18", r.UID)
       \/ EndsWith(r.UID, "-500")

UnixRule(r) == Lower(r.Username) = "root" \/ r.UID = "0"

\* the answer the rules give for an account, by the OS it runs on
PrivilegedByRules(r) ==
    LET os == Lower(r.OS)
    IN IF Contains("windows", os) THEN WindowsRule(r)
       ELSE IF Contains("linux", os) \/ Contains("unix", os) \/ Contains("darwin", os)
       THEN UnixRule(r)
       ELSE FALSE

\* C14: is_privileged branches on the OS and the branches exclude each other:
\* on an OS containing "windows" the Windows rule alone decides (root or uid 0
\* is not privileged there), on one containing "linux", "unix" or "darwin"
\* the root rule alone decides, on any other OS the answer is false; and the
\* statistics count the session accordingly.  (bob, linux, 1000) is not
\* privileged, (root, linux, 0) is.
C14_PrivilegedByOs ==
    pc = "counted" =>
        LET r == Account
            answer == is_privileged(r.Username, r.UID, r.OS)
        IN /\ answer <=> PrivilegedByRules(r)
           /\ stats.privileged = (IF PrivilegedByRules(r) THEN 1 ELSE 0)
           /\ stats.unprivileged = 1 - stats.privileged
           /\ (r.Username = "bob" /\ r.OS = "linux" /\ r.UID = "1000") => ~answer
           /\ (r.Username = "root" /\ r.OS = "linux" /\ r.UID = "0") => answer
           /\ (r.Username = "root" /\ r.OS = "windows" /\ r.UID = "0") => ~answer
           /\ (r.OS = "freebsd" \/ r.OS = "") => ~answer

\* root with uid 0 on Windows has been counted as unprivileged
C14_Witness ==
    /\ pc = "counted"
    /\ Account.Username = "root" /\ Account.OS = "windows" /\ Account.UID = "0"
    /\ stats.privileged = 0
    /\ stats.unprivileged = 1

---------------------------------------------------------------------------
(* Properties of calculate_stats, checked under SpecTree *)

\* the number of nodes of the forest that satisfy Test
CountNodes(Test(_)) == Cardinality({n \in ForestNodes : Test(NodeAt(n))})

RECURSIVE SumOf(_, _)
\* the sum of f over the keys in S
SumOf(f, S) ==
    IF S = {} THEN 0
    ELSE LET k == CHOOSE x \in S : TRUE
         IN f[k] + SumOf(f, S \ {k})

OnWindows(a) == Contains("windows", Lower(a.OS))
OnLinux(a) == Contains("linux", Lower(a.OS)) /\ ~OnWindows(a)

\* C19: calculate_stats counts every node of the forest, root or child, once:
\* total_agents is the number of nodes; privileged and unprivileged add up to
\* it, and so do windows, linux and other_os, where other_os takes every OS
\* that contains neither "windows" nor "linux", "darwin" and "unix" among
\* them; the protocol histogram has one key per uppercased transport and its
\* counts add up to total_agents; dead_agents is the number of nodes whose
\* dead flag is set, sessions and beacons alike, whatever their next check-in.
C19_StatsCountEveryNodeOnce ==
    pc = "counted" =>
        /\ stats.total_agents = Cardinality(ForestNodes)
        /\ stats.total_agents = Len(InputRecords)
        /\ stats.privileged = CountNodes(PrivilegedByRules)
        /\ stats.privileged + stats.unprivileged = stats.total_agents
        /\ stats.windows = CountNodes(OnWindows)
        /\ stats.linux = CountNodes(OnLinux)
        /\ stats.windows + stats.linux + stats.other_os = stats.total_agents
        /\ \A n \in ForestNodes :
              Lower(NodeAt(n).OS) \in {"darwin", "unix", "freebsd"} =>
                  stats.other_os >= 1
        /\ DOMAIN stats.protocols = {Upper(NodeAt(n).Transport) : n \in ForestNodes}
        /\ \A t \in DOMAIN stats.protocols :
              stats.protocols[t] =
                  Cardinality({n \in ForestNodes : Upper(NodeAt(n).Transport) = t})
        /\ SumOf(stats.protocols, DOMAIN stats.protocols) = stats.total_agents
        /\ stats.dead_agents = CountNodes(LAMBDA a : a.IsDead)

\* the statistics of a forest of three nodes, one of them a child, one a dead
\* session and one on darwin
C19_Witness ==
    /\ pc = "counted"
    /\ stats.total_agents = 3
    /\ ChildIds # {}
    /\ \E n \in ForestNodes : NodeAt(n).IsDead /\ NodeAt(n).type = "session"
    /\ \E n \in ForestNodes : NodeAt(n).OS = "darwin"
    /\ stats.other_os >= 1
    /\ stats.dead_agents >= 1


---------------------------------------------------------------------------
(* Properties of the tick pipeline, checked under SpecMain *)

Pipeline == <<"fetch", "build", "track", "render">>

IsPrefix(p, q) == Len(p) <= Len(q) /\ SubSeq(q, 1, Len(p)) = p

\* the tick has ended: the loop is waiting, or the process is gone
TickOver == pc \in {"sleep", "retry", "exited", "failed"}

\* C22: in monitor_loop and in run_once alike, the stages of a tick are
\* completed in the order fetch, build, tracker, statistics/render, one at a
\* time and each at most once per tick.  The tracker state changes only in
\* the tracker stage, which comes right after the build of this tick's forest
\* and works on that forest; the statistics change only in the render stage,
\* right after the tracker; a tick that ends normally has completed all four
\* stages; and a new tick starts only once the previous one is over.
C22_PipelineOrder ==
    [][ /\ IsPrefix(steps', Pipeline)
        /\ steps' # steps =>
              \/ /\ Len(steps) < Len(Pipeline)
                 /\ steps' = Append(steps, Pipeline[Len(steps) + 1])
              \/ steps' = <<>> /\ TickOver
        /\ TrackerState' # TrackerState =>
              /\ steps = <<"fetch", "build">>
              /\ steps' = <<"fetch", "build", "track">>
        /\ steps' = <<"fetch", "build", "track">> /\ steps # steps' =>
              /\ agent_tree = build_agent_tree(sessions, beacons)
              /\ PREVIOUS_AGENTS' = Flatten(agent_tree)
        /\ (stats' # stats \/ new_badges' # new_badges \/ unique_hosts' # unique_hosts)
              /\ steps' # <<>> =>
              /\ steps = <<"fetch", "build", "track">>
              /\ steps' = Pipeline
        /\ steps' = Pipeline /\ steps # steps' =>
              stats' = DrawStats(agent_tree, Len(sessions), Len(beacons),
                                 AGENT_FIRST_SEEN, clock)
        /\ ticks' # ticks => steps = <<>> /\ ticks' = ticks + 1
        /\ pc' = "sleep" /\ pc # "sleep" => steps' = Pipeline
        /\ pc = "once_draw" /\ pc' = "exited" => steps' = Pipeline
      ]_vars

\* the loop has completed its second full tick, the tracker having recorded a
\* change in it
C22_Witness ==
    /\ pc = "sleep"
    /\ ticks >= 2
    /\ steps = Pipeline
    /\ TrackerState # tickStart
    /\ stats.total_agents > 0


---------------------------------------------------------------------------
(* Properties of the failure handling of monitor_loop, checked under SpecFair *)

\* C23: a tick of monitor_loop that failed with an ordinary exception never
\* ends the loop: from the failure handler the program only goes on to the
\* next fetch (or leaves by the user's Ctrl+C), and every failure is
\* eventually followed by the next tick attempt unless the user interrupts.
C23_FailedTickNeverEndsLoop ==
    /\ [][pc = "retry" => pc' \in {"retry", "fetch", "exited"}]_vars
    /\ (pc = "retry" ~> pc \in {"fetch", "exited"})


\* the entry of id in LOST_AGENTS is older than the retention window
Stale(id) ==
    /\ id \in DOMAIN LOST_AGENTS
    /\ clock - LOST_AGENTS[id].lost_time > LOST_AGENT_DISPLAY_TIME

\* C26: right after every tracker update at time now, every entry of
\* LOST_AGENTS has now - lost_time <= 300; and an entry that has grown older
\* than 300 seconds is gone after the update of the next tick whose fetch
\* succeeded, unless the same agent was lost again in it and the entry carries
\* the new time.
C26_BoundedMemoryOfDepartures ==
    /\ [](pc = "draw" =>
            \A id \in DOMAIN LOST_AGENTS :
                clock - LOST_AGENTS[id].lost_time <= LOST_AGENT_DISPLAY_TIME)
    /\ \A id \in AgentIds : (pc = "build" /\ Stale(id)) ~> ~Stale(id)

\* an update has just removed an entry that was older than 300 seconds, and
\* kept one that is not
C26_Witness ==
    /\ pc = "draw"
    /\ \E id \in DOMAIN tickStart.lost \ DOMAIN LOST_AGENTS :
           clock - tickStart.lost[id].lost_time > LOST_AGENT_DISPLAY_TIME
    /\ \E id \in DOMAIN LOST_AGENTS : LOST_AGENTS[id].lost_time < clock

===========================================================================
